---- MODULE Spec2Model ----
(***************************************************************************)
(* The GRANDPA runtime module (srml/grandpa/src/lib.rs): the authority-set *)
(* state machine, the pause/resume lifecycle, the challenge ledger and the *)
(* per-block on_finalize hook, as a state machine over the module storage. *)
(***************************************************************************)
EXTENDS Integers, Sequences, FiniteSets, TLC

\* ---------------------------------------------------------------- bounds
\* Highest block number the model executes.
MaxHeight == 4
\* Largest in_blocks / further_wait value passed to the scheduling calls.
MaxDelay == 2
\* Largest median-finalized block number carried by a forced change.
MaxMedian == 1
\* Number of distinct finalized-block hashes challenges are about.
MaxHash == 2
\* Largest voting round a challenge names.
MaxRound == 3
\* Largest number of challenges queued within one block.
MaxPending == 2
MaxSlot == 9
MaxSkipped == 15
MaxValidators == 10

\* fg_primitives::CHALLENGE_SESSION_LENGTH, in blocks (scaled to the model's
\* heights).
CHALLENGE_SESSION_LENGTH == 2

\* ------------------------------------------------------ Option<T> values
None == <<>>
Some(x) == <<x>>

Delays == 0..MaxDelay
Medians == 0..MaxMedian
ForcedArgs == {None} \cup {Some(m) : m \in Medians}

\* Validator lists delivered at a session boundary (sequences of authority ids).
ValidatorLists == {<<1>>, <<1, 2>>}

\* on_new_session: validators.map(|(_, k)| (k, 1u64)).collect()
MapValidators(validators) ==
  [i \in 1..Len(validators) |-> <<validators[i], 1>>]

\* Vec<(AuthorityId, AuthorityWeight)> values used as genesis config and as
\* next_authorities arguments.
AuthorityLists ==
  {MapValidators(v) : v \in ValidatorLists} \cup {<<<<1, 2>>, <<2, 1>>>>}

\* ----------------------------------------------------------------- state
VARIABLES
  height,                       \* system current_height (block being executed)
  phase,                        \* "apply": calls of the block run; "finalized": on_finalize ran
  Authorities,                  \* storage Authorities
  State,                        \* storage State (StoredState)
  PendingChange,                \* storage PendingChange: Option<StoredPendingChange>
  NextForced,                   \* storage NextForced: Option<BlockNumber>
  Stalled,                      \* storage Stalled: Option<(BlockNumber, BlockNumber)>
  ChallengeSessions,            \* storage ChallengeSessions: hash -> Option<StoredChallengeSession>
  HistoricalChallengeSessions,  \* storage HistoricalChallengeSessions (set of hashes)
  PendingChallenges,            \* storage PendingChallenges: Vec<StoredPendingChallenge>
  digest,                       \* consensus logs deposited in the current block
  events,                       \* events deposited in the current block
  expired,                      \* history: hashes of sessions removed by expiry
  reported,                     \* the last equivocation report: Option<<<origin, equivocation>>>
  punished,                     \* the last AuraReport punished and the validators vector it left
  last                          \* the last call and what it returned: [op, ret]

vars ==
  <<height, phase, Authorities, State, PendingChange, NextForced, Stalled,
    ChallengeSessions, HistoricalChallengeSessions, PendingChallenges,
    digest, events, expired, reported, punished, last>>

authVars == <<Authorities, PendingChange, NextForced, Stalled>>
blockVars == <<digest, events, reported>>
challengeVars ==
  <<ChallengeSessions, HistoricalChallengeSessions, PendingChallenges, expired>>

\* ------------------------------------------------------- results of calls
Ok == "Ok"
ErrChangePending == "Attempt to signal GRANDPA change with one already pending."
ErrForcedTooSoon == "Cannot signal forced change so soon after last."
ErrNotLive == "Attempt to signal GRANDPA pause when the authority set isn't live"
ErrNotPaused == "Attempt to signal GRANDPA resume when the authority set isn't paused"

Call(op, ret) == [op |-> op, ret |-> ret]

\* ----------------------------------------------------------- StoredState
Live == <<"Live">>
Paused == <<"Paused">>
PendingPause(scheduled_at, delay) == <<"PendingPause", scheduled_at, delay>>
PendingResume(scheduled_at, delay) == <<"PendingResume", scheduled_at, delay>>
Tag(s) == s[1]

\* ------------------------------------------------------- schedule_change
StoredPendingChange(scheduled_at, delay, next_authorities, forced) ==
  [scheduled_at |-> scheduled_at, delay |-> delay,
   next_authorities |-> next_authorities, forced |-> forced]

\* Variant: the throttle is not consulted.
ForcedTooSoonIgnored(next_forced, scheduled_at) == FALSE

\* Variant: the throttle height itself still counts as too soon.
ForcedTooSoonInclusive(next_forced, scheduled_at) ==
  next_forced # None /\ next_forced[1] >= scheduled_at

\* Self::next_forced().map_or(false, |next| next > scheduled_at)
ForcedTooSoon(next_forced, scheduled_at) ==
  next_forced # None /\ next_forced[1] > scheduled_at

\* scheduled_at + in_blocks * 2 (block numbers stay far below the width of
\* T::BlockNumber)
NextForcedAfter(scheduled_at, in_blocks) == scheduled_at + in_blocks * 2

\* Variant: no check that a change is already pending.
schedule_change_overwrite(pc, nf, now, next_authorities, in_blocks, forced) ==
  IF forced # None /\ ForcedTooSoon(nf, now)
  THEN [ret |-> ErrForcedTooSoon, pc |-> pc, nf |-> nf]
  ELSE [ret |-> Ok,
        pc |-> Some(StoredPendingChange(now, in_blocks, next_authorities, forced)),
        nf |-> IF forced # None THEN Some(NextForcedAfter(now, in_blocks)) ELSE nf]

\* The result of schedule_change on (PendingChange, NextForced) at height now.
schedule_change(pc, nf, now, next_authorities, in_blocks, forced) ==
  IF pc = None
  THEN IF forced # None /\ ForcedTooSoon(nf, now)
       THEN [ret |-> ErrForcedTooSoon, pc |-> pc, nf |-> nf]
       ELSE [ret |-> Ok,
             pc |-> Some(StoredPendingChange(now, in_blocks, next_authorities, forced)),
             nf |-> IF forced # None
                    THEN Some(NextForcedAfter(now, in_blocks))
                    ELSE nf]
  ELSE [ret |-> ErrChangePending, pc |-> pc, nf |-> nf]

ScheduleChange(next_authorities, in_blocks, forced) ==
  /\ phase = "apply"
  /\ LET r == schedule_change(PendingChange, NextForced, height,
                              next_authorities, in_blocks, forced)
     IN /\ PendingChange' = r.pc
        /\ NextForced' = r.nf
        /\ last' = Call("schedule_change", r.ret)
  /\ UNCHANGED <<height, phase, Authorities, State, Stalled, challengeVars,
                 blockVars, punished>>

\* -------------------------------------------- on_new_session, on_stalled
\* Variant: without a Stalled marker the session's set is installed at once
\* instead of being scheduled with delay 0.
OnNewSessionInstant(changed, validators) ==
  /\ phase = "apply"
  /\ LET next_authorities == MapValidators(validators)
         differs == changed /\ next_authorities # Authorities
         r == schedule_change(PendingChange, NextForced, height,
                              next_authorities, Stalled[1][1],
                              Some(Stalled[1][2]))
     IN /\ Stalled' = IF differs THEN None ELSE Stalled
        /\ PendingChange' = IF differs /\ Stalled # None THEN r.pc
                            ELSE PendingChange
        /\ NextForced' = IF differs /\ Stalled # None THEN r.nf ELSE NextForced
        /\ Authorities' = IF differs /\ Stalled = None THEN next_authorities
                          ELSE Authorities
        /\ last' = Call("on_new_session", Ok)
  /\ UNCHANGED <<height, phase, State, challengeVars, blockVars, punished>>

\* Variant: the mapped set is not compared with the current authority set.
OnNewSessionUncompared(changed, validators) ==
  /\ phase = "apply"
  /\ LET next_authorities == MapValidators(validators)
         r == IF Stalled # None
              THEN schedule_change(PendingChange, NextForced, height,
                                   next_authorities, Stalled[1][1],
                                   Some(Stalled[1][2]))
              ELSE schedule_change(PendingChange, NextForced, height,
                                   next_authorities, 0, None)
     IN /\ Stalled' = IF changed THEN None ELSE Stalled
        /\ PendingChange' = IF changed THEN r.pc ELSE PendingChange
        /\ NextForced' = IF changed THEN r.nf ELSE NextForced
        /\ last' = Call("on_new_session", Ok)
  /\ UNCHANGED <<height, phase, Authorities, State, challengeVars,
                 blockVars, punished>>

OnNewSession(changed, validators) ==
  /\ phase = "apply"
  /\ LET next_authorities == MapValidators(validators)
         last_authorities == Authorities
         differs == changed /\ next_authorities # last_authorities
         r == IF Stalled # None
              THEN schedule_change(PendingChange, NextForced, height,
                                   next_authorities, Stalled[1][1],
                                   Some(Stalled[1][2]))
              ELSE schedule_change(PendingChange, NextForced, height,
                                   next_authorities, 0, None)
     IN /\ Stalled' = IF differs THEN None ELSE Stalled
        /\ PendingChange' = IF differs THEN r.pc ELSE PendingChange
        /\ NextForced' = IF differs THEN r.nf ELSE NextForced
        /\ last' = Call("on_new_session", Ok)
  /\ UNCHANGED <<height, phase, Authorities, State, challengeVars,
                 blockVars, punished>>

OnStalled(further_wait, median) ==
  /\ phase = "apply"
  /\ Stalled' = Some(<<further_wait, median>>)
  /\ last' = Call("on_stalled", Ok)
  /\ UNCHANGED <<height, phase, Authorities, State, PendingChange, NextForced,
                 challengeVars, blockVars, punished>>

\* ------------------------------------- schedule_pause, schedule_resume
\* Variant: a pause is also accepted while paused.
schedule_pause_any(state, now, in_blocks) ==
  IF Tag(state) \in {"Live", "Paused"}
  THEN [ret |-> Ok, state |-> PendingPause(now, in_blocks)]
  ELSE [ret |-> ErrNotLive, state |-> state]

\* The result of schedule_pause on State at height now.
schedule_pause(state, now, in_blocks) ==
  IF state = Live
  THEN [ret |-> Ok, state |-> PendingPause(now, in_blocks)]
  ELSE [ret |-> ErrNotLive, state |-> state]

\* The result of schedule_resume on State at height now.
schedule_resume(state, now, in_blocks) ==
  IF state = Paused
  THEN [ret |-> Ok, state |-> PendingResume(now, in_blocks)]
  ELSE [ret |-> ErrNotPaused, state |-> state]

SchedulePause(in_blocks) ==
  /\ phase = "apply"
  /\ LET r == schedule_pause(State, height, in_blocks)
     IN /\ State' = r.state
        /\ last' = Call("schedule_pause", r.ret)
  /\ UNCHANGED <<height, phase, authVars, challengeVars, blockVars, punished>>

ScheduleResume(in_blocks) ==
  /\ phase = "apply"
  /\ LET r == schedule_resume(State, height, in_blocks)
     IN /\ State' = r.state
        /\ last' = Call("schedule_resume", r.ret)
  /\ UNCHANGED <<height, phase, authVars, challengeVars, blockVars, punished>>

\* --------------------------------------------------- report_equivocation
ErrBadOrigin == "bad origin: expected to be a signed origin"
ErrNoEquivocationProof == "Equivocation does not have inclusion proof"
ErrBadKeyProof == "Bad session key proof"

\* KeyOwnerSystem::check_proof((key_type, identity), proof): a proof names the
\* identity whose key ownership it establishes (0: establishes none).
check_proof(identity, proof) ==
  IF proof = identity THEN Some(identity) ELSE None

\* A signed vote of an equivocation: the round it embeds, its target, and
\* whether its signature verifies against the equivocation's identity.
Votes == [round : 1..2, target : 1..2, signed : BOOLEAN]

\* GrandpaEquivocation::is_valid
is_valid(e) ==
  /\ e.first.round = e.round
  /\ e.second.round = e.round
  /\ e.first.signed
  /\ e.second.signed
  /\ e.first.target # e.second.target

\* The result of report_equivocation.
report_equivocation(origin, e) ==
  IF origin # "signed" THEN ErrBadOrigin
  ELSE IF e.identity_proof = None THEN ErrNoEquivocationProof
  ELSE IF check_proof(e.identity, e.identity_proof[1]) = None THEN ErrBadKeyProof
  ELSE Ok

Equivocation(proof, first, second) ==
  [identity |-> 1, round |-> 1, identity_proof |-> proof,
   first |-> first, second |-> second]

\* A validly signed vote of round 1 for target 1.
GoodVote == [round |-> 1, target |-> 1, signed |-> TRUE]

\* The reports submitted, as <<origin, equivocation>>: every pair of votes
\* one of which is GoodVote, with an accepted proof; every proof with a
\* conflicting pair of votes; an unsigned origin.
EquivocationReports ==
  {<<"signed", Equivocation(Some(1), GoodVote, v)>> : v \in Votes}
  \cup {<<"signed", Equivocation(Some(1), v, GoodVote)>> : v \in Votes}
  \cup {<<"signed", Equivocation(p, GoodVote, [GoodVote EXCEPT !.target = 2])>> :
          p \in {None, Some(1), Some(0)}}
  \cup {<<"none", Equivocation(Some(1), GoodVote, [GoodVote EXCEPT !.target = 2])>>}

ReportEquivocation(origin, e) ==
  /\ phase = "apply"
  /\ reported' = Some(<<origin, e>>)
  /\ last' = Call("report_equivocation", report_equivocation(origin, e))
  /\ UNCHANGED <<height, phase, State, authVars, challengeVars, digest, events,
                 punished>>

\* -------------------------------------------------- report_rejecting_set
ErrNoChallengeProof == "Challenge does not have proof of inclusion"
ErrInvalidFinalizedProof == "Invalid proof of finalized block"
ErrLowerRound == "Answer to challenge must have lower round"
Panic == "panic: index out of bounds"

Hashes == 1..MaxHash
Rounds == 1..MaxRound

\* What validate_commit makes of a commit built from a vote set: an error, a
\* result without ghost, a ghost equal to the claimed finalized block, or a
\* ghost different from it.
CommitOutcomes == {"Err", "NoGhost", "Ghost", "OtherGhost"}

\* Variant: the comparison is inverted, a matching ghost is refused.
GhostMatches(outcome) == outcome = "Ghost"

\* if let Ok(r) = validate_commit(..) { if let Some(ghost) = r.ghost() {
\*   if *ghost != challenge.finalized_block { return Err(..) } } }
GhostDiffers(outcome) == outcome = "OtherGhost"

\* The loop over targets_proof: "ok" when every supplied proof is accepted for
\* the target at its index, "bad" at the first rejected proof, "panic" when a
\* proof has no target at its index (challenge.targets[idx]).
RECURSIVE CheckTargets(_, _, _)
CheckTargets(targets, proofs, idx) ==
  IF idx > Len(proofs) THEN "ok"
  ELSE IF idx > Len(targets) THEN "panic"
  ELSE IF check_proof(targets[idx], proofs[idx]) = None THEN "bad"
  ELSE CheckTargets(targets, proofs, idx + 1)

\* Variant: a rebuttal of the stored round itself is accepted.
AnsweredTooLowStrict(stored_round, round_s) == stored_round > round_s

\* challenge_session.rejecting_set_round >= round_s
AnsweredTooLow(stored_round, round_s) == stored_round >= round_s

StoredPendingChallenge(challenge) == [challenge |-> challenge]

\* Variant: the answered session is removed before its round is compared.
rebut_and_queue_eager(sessions, pending, c) ==
  LET prev == c.previous_challenge
      round_s == c.rejecting_set_round
      removed == IF prev # None
                 THEN [sessions EXCEPT ![prev[1]] = None]
                 ELSE sessions
  IN IF /\ prev # None
        /\ sessions[prev[1]] # None
        /\ AnsweredTooLow(sessions[prev[1]][1].rejecting_set_round, round_s)
     THEN [ret |-> ErrLowerRound, sessions |-> removed, pending |-> pending]
     ELSE [ret |-> Ok, sessions |-> removed,
           pending |-> Append(pending, StoredPendingChallenge(c))]

\* The round_s > round_b branch on (ChallengeSessions, PendingChallenges).
rebut_and_queue(sessions, pending, c) ==
  LET prev == c.previous_challenge
      round_s == c.rejecting_set_round
  IN IF /\ prev # None
        /\ sessions[prev[1]] # None
        /\ AnsweredTooLow(sessions[prev[1]][1].rejecting_set_round, round_s)
     THEN [ret |-> ErrLowerRound, sessions |-> sessions, pending |-> pending]
     ELSE [ret |-> Ok,
           sessions |-> IF prev # None
                        THEN [sessions EXCEPT ![prev[1]] = None]
                        ELSE sessions,
           pending |-> Append(pending, StoredPendingChallenge(c))]

\* The result of report_rejecting_set on (ChallengeSessions, PendingChallenges).
report_rejecting_set(sessions, pending, origin, c) ==
  LET same == [ret |-> Ok, sessions |-> sessions, pending |-> pending]
      err(e) == [same EXCEPT !.ret = e]
      round_s == c.rejecting_set_round
      round_b == c.finalized_block_proof_round
      checked == CheckTargets(c.targets, c.targets_proof[1], 1)
  IN IF origin # "signed" THEN err(ErrBadOrigin)
     ELSE IF c.targets_proof = None THEN err(ErrNoChallengeProof)
     ELSE IF checked = "panic" THEN err(Panic)
     ELSE IF checked = "bad" THEN err(ErrBadKeyProof)
     ELSE IF round_s = round_b
     THEN IF GhostDiffers(c.proof_commit) \/ GhostDiffers(c.rejecting_commit)
          THEN err(ErrInvalidFinalizedProof)
          ELSE same
     ELSE IF round_s > round_b
     THEN rebut_and_queue(sessions, pending, c)
     ELSE same

Challenge(hash, round_s, round_b, prev, proof, pc, rc) ==
  [targets |-> <<1, 2>>, targets_proof |-> proof,
   rejecting_set_round |-> round_s, finalized_block_proof_round |-> round_b,
   finalized_block |-> hash, previous_challenge |-> prev,
   proof_commit |-> pc, rejecting_commit |-> rc]

PreviousArgs == {None} \cup {Some(h) : h \in Hashes}

\* Key-ownership proof lists: complete, short, with a rejected proof, with
\* more proofs than targets.
ProofLists ==
  {<<>>, <<1>>, <<1, 2>>, <<0, 2>>, <<1, 0>>, <<2, 1>>, <<1, 2, 1>>, <<0, 2, 1>>}

\* Pairs <<round_s, round_b>>: lower, equal and higher rejecting-set rounds.
RoundPairs == {<<s, 1>> : s \in Rounds} \cup {<<1, b>> : b \in Rounds}

\* The challenges submitted, all but the second group with a complete proof
\* list: every hash and pair of rounds without previous challenge; every
\* proof list; every previous challenge and pair of rounds; every pair of
\* commit outcomes with equal rounds.
Challenges ==
  {Challenge(h, r[1], r[2], None, Some(<<1, 2>>), "Ghost", "NoGhost") :
     h \in Hashes, r \in RoundPairs}
  \cup {Challenge(1, 2, 1, None, pr, "Ghost", "NoGhost") :
          pr \in {None} \cup {Some(l) : l \in ProofLists}}
  \cup {Challenge(1, r[1], r[2], Some(p), Some(<<1, 2>>), "Ghost", "NoGhost") :
          p \in Hashes, r \in RoundPairs}
  \cup {Challenge(1, 1, 1, None, Some(<<1, 2>>), pc, rc) :
          pc \in CommitOutcomes, rc \in CommitOutcomes}

\* The reports submitted, as <<origin, challenge>>.
ChallengeReports ==
  {<<"signed", c>> : c \in Challenges}
  \cup {<<"none", Challenge(1, 2, 1, None, Some(<<1, 2>>), "Ghost", "NoGhost")>>}

ReportRejectingSet(origin, c) ==
  /\ phase = "apply"
  /\ LET r == report_rejecting_set(ChallengeSessions, PendingChallenges, origin, c)
     IN /\ Len(r.pending) <= MaxPending
        /\ ChallengeSessions' = r.sessions
        /\ PendingChallenges' = r.pending
        /\ last' = Call("report_rejecting_set", r.ret)
  /\ UNCHANGED <<height, phase, State, authVars, HistoricalChallengeSessions,
                 expired, blockVars, punished>>

\* ------------------------------------------------------------ on_finalize
\* ConsensusLog entries
ScheduledChangeLog(delay, next_authorities) ==
  <<"ScheduledChange", delay, next_authorities>>
ForcedChangeLog(median, delay, next_authorities) ==
  <<"ForcedChange", median, delay, next_authorities>>
ChallengesLog(challenges) == <<"Challenges", challenges>>
PauseLog(delay) == <<"Pause", delay>>
ResumeLog(delay) == <<"Resume", delay>>

\* Variant: announced in every block from the scheduling one on.
AnnounceDueFrom(block_number, scheduled_at) == block_number >= scheduled_at

\* block_number == pending_change.scheduled_at
AnnounceDue(block_number, scheduled_at) == block_number = scheduled_at

\* Variant: enacted in the announcing block, whatever the delay.
EnactDueAtAnnounce(block_number, scheduled_at, delay) ==
  block_number = scheduled_at

\* Variant: enacted one block after the delay has passed.
EnactDueLate(block_number, scheduled_at, delay) ==
  block_number = scheduled_at + delay + 1

\* block_number == scheduled_at + delay
EnactDue(block_number, scheduled_at, delay) == block_number = scheduled_at + delay

\* The log announcing a pending change.
ChangeLog(pc) ==
  IF pc.forced # None
  THEN ForcedChangeLog(pc.forced[1], pc.delay, pc.next_authorities)
  ELSE ScheduledChangeLog(pc.delay, pc.next_authorities)

\* "Clean expired challenges": the hashes the loop removes at block_number.
ExpiringSessions(sessions, block_number) ==
  {h \in Hashes :
     /\ sessions[h] # None
     /\ EnactDue(block_number, sessions[h][1].scheduled_at, sessions[h][1].delay)}

StoredChallengeSession(challenge, parent_hash, scheduled_at) ==
  [rejecting_set_round |-> challenge.rejecting_set_round,
   challenge_hash |-> challenge.finalized_block,
   reference_block |-> challenge.finalized_block,
   parent_hash |-> parent_hash,
   scheduled_at |-> scheduled_at,
   delay |-> CHALLENGE_SESSION_LENGTH]

\* "Store challenge sessions": insert one session per pending challenge, in
\* queue order, from index i on.
RECURSIVE StoreSessions(_, _, _, _)
StoreSessions(sessions, pending, i, now) ==
  IF i > Len(pending) THEN sessions
  ELSE LET c == pending[i].challenge
       IN StoreSessions(
            [sessions EXCEPT ![c.finalized_block] =
               Some(StoredChallengeSession(c, now - 1, now))],
            pending, i + 1, now)

\* "check for scheduled pending state changes": the new State, the log and
\* the event of the match on State.
AdvanceState(state, block_number) ==
  IF Tag(state) = "PendingPause"
  THEN [state |-> IF EnactDue(block_number, state[2], state[3]) THEN Paused ELSE state,
        logs |-> IF AnnounceDue(block_number, state[2]) THEN <<PauseLog(state[3])>> ELSE <<>>,
        events |-> IF EnactDue(block_number, state[2], state[3]) THEN <<"Paused">> ELSE <<>>]
  ELSE IF Tag(state) = "PendingResume"
  THEN [state |-> IF EnactDue(block_number, state[2], state[3]) THEN Live ELSE state,
        logs |-> IF AnnounceDue(block_number, state[2]) THEN <<ResumeLog(state[3])>> ELSE <<>>,
        events |-> IF EnactDue(block_number, state[2], state[3]) THEN <<"Resumed">> ELSE <<>>]
  ELSE [state |-> state, logs |-> <<>>, events |-> <<>>]

OnFinalize ==
  /\ phase = "apply"
  /\ LET block_number == height
         announce == /\ PendingChange # None
                     /\ AnnounceDue(block_number, PendingChange[1].scheduled_at)
         enact == /\ PendingChange # None
                  /\ EnactDue(block_number, PendingChange[1].scheduled_at,
                              PendingChange[1].delay)
         gone == ExpiringSessions(ChallengeSessions, block_number)
         open == [h \in Hashes |-> IF h \in gone THEN None ELSE ChallengeSessions[h]]
         promote == Len(PendingChallenges) > 0
         adv == AdvanceState(State, block_number)
     IN /\ Authorities' = IF enact THEN PendingChange[1].next_authorities
                          ELSE Authorities
        /\ PendingChange' = IF enact THEN None ELSE PendingChange
        /\ ChallengeSessions' =
             IF promote THEN StoreSessions(open, PendingChallenges, 1, height)
             ELSE open
        /\ PendingChallenges' = <<>>
        /\ expired' = expired \cup gone
        /\ State' = adv.state
        /\ digest' = digest
             \o (IF announce THEN <<ChangeLog(PendingChange[1])>> ELSE <<>>)
             \o (IF promote
                 THEN <<ChallengesLog([i \in 1..Len(PendingChallenges) |->
                                         PendingChallenges[i].challenge])>>
                 ELSE <<>>)
             \o adv.logs
        /\ events' = events
             \o (IF enact
                 THEN <<<<"NewAuthorities", PendingChange[1].next_authorities>>>>
                 ELSE <<>>)
             \o adv.events
  /\ phase' = "finalized"
  /\ last' = Call("on_finalize", Ok)
  /\ UNCHANGED <<height, NextForced, Stalled, HistoricalChallengeSessions, reported,
                 punished>>

\* The next block starts: the height advances and the block's digest and
\* events start empty.
Initialize ==
  /\ phase = "finalized"
  /\ height < MaxHeight
  /\ height' = height + 1
  /\ phase' = "apply"
  /\ digest' = <<>>
  /\ events' = <<>>
  /\ last' = Call("initialize", Ok)
  /\ UNCHANGED <<State, authVars, challengeVars, reported, punished>>

\* --------------------------------------------------------- digest helpers
\* ConsensusLog::try_into_change and its siblings: the payload of the log if
\* it is of the kind asked for.
try_into_change(log) ==
  IF log[1] = "ScheduledChange" THEN Some(<<log[2], log[3]>>) ELSE None
try_into_forced_change(log) ==
  IF log[1] = "ForcedChange" THEN Some(<<log[2], <<log[3], log[4]>>>>) ELSE None
try_into_challenges(log) ==
  IF log[1] = "Challenges" THEN Some(log[2]) ELSE None
try_into_pause(log) ==
  IF log[1] = "Pause" THEN Some(log[2]) ELSE None
try_into_resume(log) ==
  IF log[1] = "Resume" THEN Some(log[2]) ELSE None

\* digest.convert_first(|l| l.try_to::<ConsensusLog>(id)): the first entry
\* of this engine in the digest (every entry of the modelled digest is one).
grandpa_log(d) == IF Len(d) = 0 THEN None ELSE Some(d[1])

\* Self::grandpa_log(digest).and_then(|signal| signal.try_into_..())
pending_change(d) ==
  IF grandpa_log(d) = None THEN None ELSE try_into_change(grandpa_log(d)[1])
forced_change(d) ==
  IF grandpa_log(d) = None THEN None ELSE try_into_forced_change(grandpa_log(d)[1])
grandpa_challenges(d) ==
  IF grandpa_log(d) = None THEN None ELSE try_into_challenges(grandpa_log(d)[1])
pending_pause(d) ==
  IF grandpa_log(d) = None THEN None ELSE try_into_pause(grandpa_log(d)[1])
pending_resume(d) ==
  IF grandpa_log(d) = None THEN None ELSE try_into_resume(grandpa_log(d)[1])

\* ------------------------------------------------------ AuraReport.punish
\* AuraReport { start_slot, skipped }
AuraReport(start_slot, skipped) == [start_slot |-> start_slot, skipped |-> skipped]

\* The closure of the tests: |idx, count| validators[idx] += count, on a
\* vector indexed from 0.
punish_with(validators, idx, count) ==
  [validators EXCEPT ![idx + 1] = @ + count]

\* for index in 0..skipped { punish_with((start_slot + index) % n, 1) }
RECURSIVE punish_loop(_, _, _, _)
punish_loop(report, validator_count, validators, index) ==
  IF index >= report.skipped THEN validators
  ELSE punish_loop(report, validator_count,
                   punish_with(validators,
                               (report.start_slot + index) % validator_count, 1),
                   index + 1)

\* Variant: the guard on the number of skipped slots is missing.
punish_unguarded(report, validator_count, validators) ==
  punish_loop(report, validator_count, validators, 0)

\* AuraReport::punish(validator_count, punish_with): nobody is punished
\* unless fewer slots were skipped than there are validators.
punish(report, validator_count, validators) ==
  IF report.skipped < validator_count
  THEN punish_loop(report, validator_count, validators, 0)
  ELSE validators

\* let mut validators = vec![0; n]; report.punish(n, ..)
Punish(start_slot, skipped, validator_count) ==
  /\ LET report == AuraReport(start_slot, skipped)
         validators == [i \in 1..validator_count |-> 0]
     IN punished' = Some([report |-> report,
                          validators |-> punish(report, validator_count, validators)])
  /\ last' = Call("punish", Ok)
  /\ UNCHANGED <<height, phase, State, authVars, challengeVars, blockVars>>

\* --------------------------------------------------------- specifications
\* Genesis: the configured authority set, everything else at its default.
Init ==
  /\ height = 1
  /\ phase = "apply"
  /\ Authorities = <<<<1, 2>>, <<2, 1>>>>
  /\ State = Live
  /\ PendingChange = None
  /\ NextForced = None
  /\ Stalled = None
  /\ ChallengeSessions = [h \in Hashes |-> None]
  /\ HistoricalChallengeSessions = {}
  /\ PendingChallenges = <<>>
  /\ digest = <<>>
  /\ events = <<>>
  /\ expired = {}
  /\ reported = None
  /\ punished = None
  /\ last = Call("genesis", Ok)

AuthorityCalls ==
  \/ \E a \in AuthorityLists, d \in Delays, f \in ForcedArgs : ScheduleChange(a, d, f)
  \/ \E ch \in BOOLEAN, v \in ValidatorLists : OnNewSession(ch, v)
  \/ \E w \in Delays, m \in Medians : OnStalled(w, m)

LifecycleCalls ==
  \/ \E d \in Delays : SchedulePause(d)
  \/ \E d \in Delays : ScheduleResume(d)

LedgerCalls == \E r \in ChallengeReports : ReportRejectingSet(r[1], r[2])

EquivocationCalls == \E r \in EquivocationReports : ReportEquivocation(r[1], r[2])

AuraCalls ==
  \E s \in 0..MaxSlot, k \in 0..MaxSkipped, n \in 1..MaxValidators : Punish(s, k, n)

\* Calls of every kind in one block, over a few inputs of each: an instant and
\* a longest-delay change, forced or not;
\* pauses and resumes, instant or delayed by one block; a challenge and its
\* rebuttal on one block hash and one challenge per error; an accepted and a
\* refused equivocation report.
ModuleChallenges ==
  {Challenge(1, 2, 1, prev, Some(<<1, 2>>), "Ghost", "NoGhost") :
     prev \in {None, Some(1)}}
  \cup {Challenge(1, 2, 1, None, pr, "Ghost", "NoGhost") :
          pr \in {None, Some(<<0, 2>>), Some(<<1, 2, 1>>)}}
  \cup {Challenge(1, 1, 1, None, Some(<<1, 2>>), "OtherGhost", "NoGhost")}

ModuleChallengeReports ==
  {<<"signed", c>> : c \in ModuleChallenges}
  \cup {<<"none", Challenge(1, 2, 1, None, Some(<<1, 2>>), "Ghost", "NoGhost")>>}

ModuleEquivocationReports ==
  {<<"signed", Equivocation(p, GoodVote, [GoodVote EXCEPT !.target = 2])>> :
     p \in {None, Some(1)}}

ModuleCalls ==
  \/ \E d \in {0, MaxDelay}, f \in {None, Some(0)} :
       ScheduleChange(MapValidators(<<1>>), d, f)
  \/ \E d \in {0, 1} : SchedulePause(d)
  \/ \E d \in {0, 1} : ScheduleResume(d)
  \/ \E r \in ModuleChallengeReports : ReportRejectingSet(r[1], r[2])
  \/ \E r \in ModuleEquivocationReports : ReportEquivocation(r[1], r[2])

\* One call of every operation of the module: changes to a one-validator set,
\* instant or with the longest delay; a Stalled marker and a session with
\* two validators; an instant pause and resume; one accepted challenge and
\* one accepted equivocation report.
FrameCalls ==
  \/ \E d \in {0, MaxDelay} : ScheduleChange(MapValidators(<<1>>), d, None)
  \/ OnStalled(1, 0)
  \/ OnNewSession(TRUE, <<1, 2>>)
  \/ SchedulePause(0)
  \/ ScheduleResume(0)
  \/ ReportRejectingSet("signed",
        Challenge(1, 2, 1, None, Some(<<1, 2>>), "Ghost", "NoGhost"))
  \/ ReportEquivocation("signed",
        Equivocation(Some(1), GoodVote, [GoodVote EXCEPT !.target = 2]))

NextAuthority == AuthorityCalls \/ OnFinalize \/ Initialize
NextLifecycle == LifecycleCalls \/ OnFinalize \/ Initialize
NextLedger == LedgerCalls \/ OnFinalize \/ Initialize
NextEquivocation == EquivocationCalls \/ OnFinalize \/ Initialize
NextAura == AuraCalls
NextModule == ModuleCalls \/ OnFinalize \/ Initialize
NextFrame == FrameCalls \/ OnFinalize \/ Initialize
Next ==
  \/ AuthorityCalls
  \/ LifecycleCalls
  \/ LedgerCalls
  \/ EquivocationCalls
  \/ AuraCalls
  \/ OnFinalize
  \/ Initialize

\* The authority-set state machine alone.
SpecAuthority == Init /\ [][NextAuthority]_vars
\* The pause/resume lifecycle alone.
SpecLifecycle == Init /\ [][NextLifecycle]_vars
\* The challenge ledger alone.
SpecLedger == Init /\ [][NextLedger]_vars
\* The equivocation reports alone.
SpecEquivocation == Init /\ [][NextEquivocation]_vars
\* The skipped-slot punishment of the slot-based module alone.
SpecAura == Init /\ [][NextAura]_vars
\* The pause/resume lifecycle with blocks that keep coming: the executive
\* runs on_finalize at the end of every block and then starts the next one.
SpecLifecycleFair ==
  /\ Init
  /\ [][NextLifecycle]_vars
  /\ WF_vars(OnFinalize)
  /\ WF_vars(Initialize)
\* The whole module over the few inputs of ModuleCalls.
SpecModule == Init /\ [][NextModule]_vars
\* Every operation of the module, one input of each.
SpecFrame == Init /\ [][NextFrame]_vars
Spec == Init /\ [][Next]_vars

\* ------------------------------------------------------------------ steps
\* The step is a run of on_finalize.
IsFinalize == phase = "apply" /\ phase' = "finalized"

\* ----------------------------------------------------- C1 (SpecAuthority)
\* C1: at most one PendingChange is stored and a stored one is never
\* replaced; schedule_change called while one is stored returns the "already
\* pending" error and leaves it as it was; called while none is stored (and,
\* if forced, the throttle allows it) it stores the PendingChange with
\* scheduled_at = current height, delay = in_blocks and the given
\* next_authorities and forced value.
C1_SinglePendingChange ==
  [][/\ Len(PendingChange') <= 1
     /\ (PendingChange # None /\ PendingChange' # None)
          => PendingChange' = PendingChange
     /\ last'.op = "schedule_change" =>
          IF PendingChange # None
          THEN /\ last'.ret = ErrChangePending
               /\ PendingChange' = PendingChange
               /\ NextForced' = NextForced
          ELSE \A a \in AuthorityLists, d \in Delays, f \in ForcedArgs :
                 (/\ ScheduleChange(a, d, f)
                  /\ (f = None \/ NextForced = None \/ NextForced[1] <= height)) =>
                   /\ last'.ret = Ok
                   /\ PendingChange' =
                        Some([scheduled_at |-> height, delay |-> d,
                              next_authorities |-> a, forced |-> f])
    ]_vars

\* A schedule_change was refused because a change is pending.
C1_Witness ==
  /\ last = Call("schedule_change", ErrChangePending)
  /\ PendingChange # None

\* ----------------------------------------------------- C2 (SpecAuthority)
\* C2: a forced schedule_change at height h with no PendingChange stored
\* fails, changing nothing, if NextForced is set to a height greater than h;
\* if NextForced is unset or at most h it succeeds and sets NextForced to
\* h + 2 * in_blocks.
C2_ForcedThrottle ==
  [][\A a \in AuthorityLists, d \in Delays, m \in Medians :
       (/\ PendingChange = None
        /\ last'.op = "schedule_change"
        /\ ScheduleChange(a, d, Some(m))) =>
         IF NextForced # None /\ NextForced[1] > height
         THEN /\ last'.ret = ErrForcedTooSoon
              /\ PendingChange' = None
              /\ NextForced' = NextForced
         ELSE /\ last'.ret = Ok
              /\ PendingChange' # None
              /\ PendingChange'[1].forced = Some(m)
              /\ NextForced' = Some(height + 2 * d)
    ]_vars

\* A forced change was refused by the throttle, no change being pending.
C2_Witness ==
  /\ last = Call("schedule_change", ErrForcedTooSoon)
  /\ PendingChange = None
  /\ NextForced # None
  /\ NextForced[1] > height

\* ----------------------------------------------------- C3 (SpecLifecycle)
LifecycleEdges ==
  {<<"Live", "PendingPause">>, <<"PendingPause", "Paused">>,
   <<"Paused", "PendingResume">>, <<"PendingResume", "Live">>}

\* C3: State changes only along Live -> PendingPause -> Paused ->
\* PendingResume -> Live; schedule_pause returns an error and leaves State
\* unchanged whenever State is not Live, schedule_resume whenever State is
\* not Paused.
C3_LifecycleCycle ==
  [][/\ State' # State => <<Tag(State), Tag(State')>> \in LifecycleEdges
     /\ \A d \in Delays :
          (SchedulePause(d) /\ State # Live) =>
            (last'.ret = ErrNotLive /\ State' = State)
     /\ \A d \in Delays :
          (ScheduleResume(d) /\ State # Paused) =>
            (last'.ret = ErrNotPaused /\ State' = State)
    ]_vars

\* A resume was refused while a resume is already pending, which lies three
\* edges into the cycle.
C3_Witness ==
  /\ last = Call("schedule_resume", ErrNotPaused)
  /\ Tag(State) = "PendingResume"

\* ----------------------------------------------------- C4 (SpecAuthority)
\* A stored PendingChange is never past its enacting height: during block
\* scheduled_at .. scheduled_at + delay it is stored, and on_finalize of the
\* last of these has removed it.
C4_NotOverdue ==
  PendingChange # None =>
    LET pc == PendingChange[1]
    IN /\ pc.scheduled_at <= height
       /\ height <= pc.scheduled_at + pc.delay
       /\ phase = "finalized" => height < pc.scheduled_at + pc.delay

\* C4: with on_finalize run once per block, a PendingChange scheduled at h
\* with delay d is enacted exactly by on_finalize(h + d): every other step
\* leaves the authority set unchanged and the PendingChange stored, that call
\* sets Authorities to next_authorities and clears the PendingChange; with
\* d = 0 the announcement log and the enactment both happen in on_finalize(h).
C4_EnactedAtDelay ==
  /\ []C4_NotOverdue
  /\ [][PendingChange # None =>
          LET pc == PendingChange[1]
          IN IF IsFinalize /\ height = pc.scheduled_at + pc.delay
             THEN /\ Authorities' = pc.next_authorities
                  /\ PendingChange' = None
                  /\ pc.delay = 0 =>
                       /\ height = pc.scheduled_at
                       /\ digest' = digest \o <<ChangeLog(pc)>>
             ELSE /\ Authorities' = Authorities
                  /\ PendingChange' = PendingChange
      ]_vars

\* on_finalize has enacted a change announced in an earlier block.
C4_Witness ==
  /\ last = Call("on_finalize", Ok)
  /\ events = <<<<"NewAuthorities", Authorities>>>>
  /\ digest = <<>>
  /\ PendingChange = None

\* -------------------------------------------------------- C5 (SpecLedger)
\* The step is report_rejecting_set(r[1], r[2]).
Reports(r) == last'.op = "report_rejecting_set" /\ ReportRejectingSet(r[1], r[2])

\* The challenge names an open session as its previous challenge.
NamesOpenSession(c) ==
  /\ c.previous_challenge # None
  /\ ChallengeSessions[c.previous_challenge[1]] # None

C6_NoReplayAfterExpiry ==
  \A h \in Hashes : h \in expired => ChallengeSessions[h] = None

\* -------------------------------------------------------- C7 (SpecLedger)
\* C7: on_finalize at height h removes every open session with
\* scheduled_at + delay = h and records its hash in
\* HistoricalChallengeSessions; the expiry step leaves the other sessions open
\* and unchanged (sessions of hashes with a pending challenge are rewritten by
\* the promotion that follows).
C7_ExpiryArchives ==
  [][IsFinalize =>
       \A h \in Hashes :
         LET promoted == \E i \in 1..Len(PendingChallenges) :
                           PendingChallenges[i].challenge.finalized_block = h
         IN IF h \in ExpiringSessions(ChallengeSessions, height)
            THEN /\ h \in HistoricalChallengeSessions'
                 /\ ~promoted => ChallengeSessions'[h] = None
            ELSE ~promoted => ChallengeSessions'[h] = ChallengeSessions[h]
    ]_vars

\* -------------------------------------------------------- C8 (SpecLedger)
\* C8: report_rejecting_set with round_s < round_b returns an error and
\* leaves the PendingChallenges queue and every session as they were.
C8_LowerRoundRejected ==
  [][\A r \in ChallengeReports :
       (/\ r[2].rejecting_set_round < r[2].finalized_block_proof_round
        /\ Reports(r)) =>
         /\ last'.ret # Ok
         /\ PendingChallenges' = PendingChallenges
         /\ ChallengeSessions' = ChallengeSessions
    ]_vars

\* -------------------------------------------------------- C9 (SpecLedger)
\* C9: report_rejecting_set with round_s > round_b whose previous_challenge
\* names no open session fails and queues no PendingChallenge; with a
\* previous_challenge it succeeds only when that session is open and its
\* stored round is below round_s.
C9_PreviousMustBeOpen ==
  [][\A r \in ChallengeReports :
       LET c == r[2]
       IN (/\ c.rejecting_set_round > c.finalized_block_proof_round
           /\ c.previous_challenge # None
           /\ Reports(r)) =>
            /\ ~NamesOpenSession(c) =>
                 (last'.ret # Ok /\ PendingChallenges' = PendingChallenges)
            /\ last'.ret = Ok =>
                 /\ NamesOpenSession(c)
                 /\ ChallengeSessions[c.previous_challenge[1]][1].rejecting_set_round
                      < c.rejecting_set_round
    ]_vars

\* -------------------------------------------------- C10 (SpecEquivocation)
\* C10: report_equivocation returns an error when the equivocation carries
\* no identity proof, when the key-ownership checker rejects the proof, and
\* when the two votes are no valid equivocation; it returns success only when
\* the proof is present, the checker accepts it and the votes conflict.
C10_EquivocationErrors ==
  (last.op = "report_equivocation" /\ reported # None) =>
    LET e == reported[1][2]
    IN last.ret = Ok <=>
         /\ e.identity_proof # None
         /\ check_proof(e.identity, e.identity_proof[1]) # None
         /\ is_valid(e)

\* ------------------------------------------------------- C11 (SpecLedger)
\* Every identity of challenge.targets has an accepted key-ownership proof.
EveryTargetProved(c) ==
  /\ c.targets_proof # None
  /\ Len(c.targets_proof[1]) >= Len(c.targets)
  /\ \A i \in 1..Len(c.targets) :
       check_proof(c.targets[i], c.targets_proof[1][i]) # None

\* C11: report_rejecting_set returns success only if every identity of
\* challenge.targets has an accepted key-ownership proof; with the proof list
\* absent, a supplied proof rejected, or fewer proofs than targets, it
\* returns an error and queues no PendingChallenge.
C11_EveryTargetProved ==
  [][\A r \in ChallengeReports :
       (Reports(r) /\ ~EveryTargetProved(r[2])) =>
         /\ last'.ret # Ok
         /\ PendingChallenges' = PendingChallenges
    ]_vars

\* ------------------------------------------------------- C14 (SpecLedger)
\* The reports whose two rounds are equal.
EqualRoundReports ==
  {r \in ChallengeReports :
     r[2].rejecting_set_round = r[2].finalized_block_proof_round}

C15_PromotionOpensSessions ==
  [][IsFinalize =>
       IF PendingChallenges # <<>>
       THEN /\ digest' = Append(digest,
                 <<"Challenges", [i \in 1..Len(PendingChallenges) |->
                                    PendingChallenges[i].challenge]>>)
            /\ PendingChallenges' = <<>>
            /\ \A i \in 1..Len(PendingChallenges) :
                 LET c == PendingChallenges[i].challenge
                     s == ChallengeSessions'[c.finalized_block]
                 IN /\ s # None
                    /\ s[1].scheduled_at = height
                    /\ s[1].delay = CHALLENGE_SESSION_LENGTH
                    /\ s[1].rejecting_set_round = c.rejecting_set_round
       ELSE /\ digest' = digest
            /\ \A h \in Hashes :
                 ChallengeSessions'[h] \in {None, ChallengeSessions[h]}
    ]_vars

\* ------------------------------------------------- C16 (SpecLifecycleFair)
\* State is PendingPause or PendingResume.
IsPending(state) == Tag(state) \in {"PendingPause", "PendingResume"}

\* The state a pending pause or resume ends in.
Terminal(state) == IF Tag(state) = "PendingPause" THEN Paused ELSE Live

\* A pending pause or resume is never past its enacting height.
C16_NotOverdue ==
  IsPending(State) =>
    /\ State[2] <= height
    /\ height <= State[2] + State[3]
    /\ phase = "finalized" => height < State[2] + State[3]

\* C16: a pause scheduled at h with delay d leaves State at PendingPause
\* after on_finalize of every height in [h, h + d) and becomes Paused exactly
\* in on_finalize(h + d) (d = 0: in on_finalize(h)); a resume likewise becomes
\* Live; every pending pause or resume whose enacting height lies within the
\* explored heights eventually reaches its terminal state.
C16_PendingReachesTerminal ==
  /\ []C16_NotOverdue
  /\ [][IsPending(State) =>
          IF IsFinalize /\ height = State[2] + State[3]
          THEN State' = Terminal(State)
          ELSE State' = State
      ]_vars
  /\ \A s \in 1..MaxHeight, d \in Delays :
       (s + d <= MaxHeight) =>
         /\ (State = PendingPause(s, d)) ~> (State = Paused)
         /\ (State = PendingResume(s, d)) ~> (State = Live)

\* on_finalize has resumed the module: the resume was announced in an
\* earlier block, after a pause that was itself enacted.
C16_Witness ==
  /\ last = Call("on_finalize", Ok)
  /\ State = Live
  /\ events = <<"Resumed">>
  /\ digest = <<>>

\* ---------------------------------------------------- C18 (SpecAuthority)
\* The consensus-log entry that announces the pending change pc.
Announcement(pc) ==
  IF pc.forced = None
  THEN <<"ScheduledChange", pc.delay, pc.next_authorities>>
  ELSE <<"ForcedChange", pc.forced[1], pc.delay, pc.next_authorities>>

\* After on_finalize the block's log holds the announcement of the stored
\* PendingChange when the block is the scheduling one and nothing otherwise.
C18_AnnouncedInSchedulingBlock ==
  (PendingChange # None /\ phase = "finalized") =>
    digest = IF height = PendingChange[1].scheduled_at
             THEN <<Announcement(PendingChange[1])>>
             ELSE <<>>

\* C18: each PendingChange is announced exactly once, by on_finalize at
\* height scheduled_at and at no other height: it is stored during block
\* scheduled_at, on_finalize of that block deposits ForcedChange(median,
\* {delay, next}) when forced = Some(median) and ScheduledChange({delay,
\* next}) when forced is None, and no other step deposits anything.
C18_AnnouncedOnce ==
  /\ []C18_AnnouncedInSchedulingBlock
  /\ [][(PendingChange = None /\ PendingChange' # None) =>
          /\ PendingChange'[1].scheduled_at = height
          /\ phase = "apply" /\ phase' = "apply"
      ]_vars
  /\ [][IF IsFinalize
        THEN digest' = digest \o
               (IF /\ PendingChange # None
                   /\ height = PendingChange[1].scheduled_at
                THEN <<Announcement(PendingChange[1])>>
                ELSE <<>>)
        ELSE digest' \in {digest, <<>>}
      ]_vars

\* on_finalize has announced a forced change that stays pending.
C18_Witness ==
  /\ last = Call("on_finalize", Ok)
  /\ PendingChange # None
  /\ PendingChange[1].forced # None
  /\ digest = <<Announcement(PendingChange[1])>>

\* ---------------------------------------------------- C19 (SpecAuthority)
\* validators mapped to (key, weight 1) pairs, in order.
Mapped(validators) == [i \in 1..Len(validators) |-> <<validators[i], 1>>]

\* The PendingChange on_new_session asks for: instant and unforced without
\* a Stalled marker, delayed by further_wait and forced with one.
SessionChange(validators) ==
  [scheduled_at |-> height,
   delay |-> IF Stalled = None THEN 0 ELSE Stalled[1][1],
   next_authorities |-> Mapped(validators),
   forced |-> IF Stalled = None THEN None ELSE Some(Stalled[1][2])]

\* The forced-change throttle refuses a forced change at the current height.
Throttled == NextForced # None /\ NextForced[1] > height

C20_StalledIsConverted ==
  [][(Stalled # None /\ Stalled' = None) =>
       /\ PendingChange' # None
       /\ PendingChange'[1].scheduled_at = height
       /\ PendingChange'[1].delay = Stalled[1][1]
       /\ PendingChange'[1].forced = Some(Stalled[1][2])
    ]_vars

\* --------------------------------------------------------- C17 (SpecAura)
\* The indices i in 0..skipped whose slot start_slot + i falls on validator
\* idx of n.
SlotsOf(report, n, idx) ==
  {i \in 0..(report.skipped - 1) : (report.start_slot + i) % n = idx}

\* The vectors aura_report_gets_skipped_correctly expects.
C17_TestVectors ==
  punished # None =>
    LET report == punished[1].report
        validators == punished[1].validators
    IN /\ (report = AuraReport(3, 15) /\ Len(validators) = 10) =>
            validators = <<0, 0, 0, 0, 0, 0, 0, 0, 0, 0>>
       /\ (report = AuraReport(3, 5) /\ Len(validators) = 10) =>
            validators = <<0, 0, 0, 1, 1, 1, 1, 1, 0, 0>>
       /\ (report = AuraReport(8, 5) /\ Len(validators) = 10) =>
            validators = <<1, 1, 1, 0, 0, 0, 0, 0, 1, 1>>
       /\ (report = AuraReport(1, 3) /\ Len(validators) = 4) =>
            validators = <<0, 1, 1, 1>>
       /\ (report = AuraReport(2, 3) /\ Len(validators) = 4) =>
            validators = <<1, 0, 1, 1>>

\* C17: AuraReport{start_slot, skipped}.punish(n, f) with skipped < n calls
\* f(idx, 1) exactly once for each idx = (start_slot + i) mod n, i in
\* 0..skipped, and for no other validator; with skipped > n it punishes
\* nobody. Seen on the vector f adds its counts to.
C17_PunishSkipped ==
  /\ C17_TestVectors
  /\ punished # None =>
       LET report == punished[1].report
           validators == punished[1].validators
           n == Len(validators)
       IN /\ report.skipped < n =>
               \A idx \in 0..(n - 1) :
                 validators[idx + 1] =
                   IF SlotsOf(report, n, idx) # {} THEN 1 ELSE 0
          /\ report.skipped > n =>
               \A idx \in 0..(n - 1) : validators[idx + 1] = 0

\* The skipped slots wrapped around the end of the validator list.
C17_Witness ==
  punished = Some([report |-> AuraReport(8, 5),
                   validators |-> <<1, 1, 1, 0, 0, 0, 0, 0, 1, 1>>])

\* ------------------------------------------------------- C13 (SpecModule)
\* C13: on_finalize deposits at most one consensus-log entry per block,
\* whatever combination of authority-change announcement, pending-challenge
\* promotion and pause/resume announcement falls on that height.
C13_OneLogPerBlock ==
  [][IsFinalize => Len(digest') <= Len(digest) + 1]_vars

\* ------------------------------------------------------- C12 (SpecModule)
\* The dispatchable and internal calls that can return an error.
FallibleCalls ==
  {"schedule_change", "schedule_pause", "schedule_resume",
   "report_equivocation", "report_rejecting_set"}

\* C12: whenever schedule_change, schedule_pause, schedule_resume,
\* report_equivocation or report_rejecting_set returns an error, the whole
\* stored state (Authorities, State, PendingChange, NextForced, Stalled,
\* ChallengeSessions, HistoricalChallengeSessions, PendingChallenges) and the
\* block's log and events are the same as before the call.
C12_ErrorsChangeNothing ==
  [][(last'.op \in FallibleCalls /\ last'.ret # Ok) =>
       UNCHANGED <<Authorities, State, PendingChange, NextForced, Stalled,
                   ChallengeSessions, HistoricalChallengeSessions,
                   PendingChallenges, digest, events>>
    ]_vars

\* A rebuttal was refused for its round while a change is pending, a pause
\* is pending and a challenge is queued.
C12_Witness ==
  /\ last = Call("report_rejecting_set", ErrLowerRound)
  /\ PendingChange # None
  /\ Tag(State) = "PendingPause"
  /\ PendingChallenges # <<>>
  /\ NextForced # None

\* ------------------------------------------------------- C21 (SpecLedger)
\* The step is an accepted rebuttal that names h as previous_challenge with
\* a round above stored_round.
IsHigherRebuttalOf(h, stored_round) ==
  /\ last'.op = "report_rejecting_set"
  /\ last'.ret = Ok
  /\ \E r \in ChallengeReports :
       /\ r[2].previous_challenge = Some(h)
       /\ r[2].rejecting_set_round > r[2].finalized_block_proof_round
       /\ r[2].rejecting_set_round > stored_round
       /\ ReportRejectingSet(r[1], r[2])

\* C21: an open ChallengeSession keyed by H is removed, or has its stored
\* fields replaced, before its expiry height only by a rebuttal that names H
\* as previous_challenge with a round strictly above the stored one; in
\* particular the promotion of a pending challenge on H by on_finalize never
\* overwrites the open session or moves its expiry.
C21_OnlyHigherRebuttalSupersedes ==
  [][\A h \in Hashes :
       (/\ ChallengeSessions[h] # None
        /\ ChallengeSessions'[h] # ChallengeSessions[h]) =>
         LET s == ChallengeSessions[h][1]
         IN \/ IsFinalize /\ height = s.scheduled_at + s.delay
            \/ /\ ChallengeSessions'[h] = None
               /\ IsHigherRebuttalOf(h, s.rejecting_set_round)
    ]_vars

\* -------------------------------------------------------- C22 (SpecFrame)
\* C22: Authorities is modified by no operation other than on_finalize
\* enacting the stored PendingChange: every step that changes it is the
\* on_finalize of height scheduled_at + delay, sets it to that change's
\* next_authorities and clears the PendingChange; schedule_change,
\* schedule_pause, schedule_resume, on_new_session, on_stalled,
\* report_equivocation, report_rejecting_set and an on_finalize with no
\* change due leave it as it was.
C22_OnlyEnactmentWritesAuthorities ==
  [][/\ (Authorities' # Authorities) =>
          /\ IsFinalize
          /\ PendingChange # None
          /\ height = PendingChange[1].scheduled_at + PendingChange[1].delay
          /\ Authorities' = PendingChange[1].next_authorities
          /\ PendingChange' = None
     /\ ~(/\ IsFinalize
          /\ PendingChange # None
          /\ height = PendingChange[1].scheduled_at + PendingChange[1].delay) =>
          Authorities' = Authorities
    ]_vars

\* on_finalize has enacted a change that came from a session, while the
\* module is paused and a challenge session is open.
C22_Witness ==
  /\ last = Call("on_finalize", Ok)
  /\ Authorities = MapValidators(<<1, 2>>)
  /\ events # <<>>
  /\ events[1] = <<"NewAuthorities", Authorities>>
  /\ State = Paused
  /\ \E h \in Hashes : ChallengeSessions[h] # None

\* ---------------------------------------------------- C23 (SpecAuthority)
\* C23: NextForced, once set, is never cleared and never decreases; it
\* changes only in a step that stores a forced PendingChange (schedule_change
\* called directly or by on_new_session for a Stalled marker), and its new
\* value is h + 2 * in_blocks of that change at the current height h.
C23_NextForcedMonotone ==
  [][/\ NextForced # None =>
          /\ NextForced' # None
          /\ NextForced'[1] >= NextForced[1]
     /\ (NextForced' # NextForced) =>
          /\ last'.op \in {"schedule_change", "on_new_session"}
          /\ last'.ret = Ok
          /\ PendingChange = None
          /\ PendingChange' # None
          /\ PendingChange'[1].forced # None
          /\ PendingChange'[1].scheduled_at = height
          /\ NextForced' = Some(height + 2 * PendingChange'[1].delay)
    ]_vars

\* A forced change with the longest delay was accepted at a height the
\* throttle of an earlier forced change had to let through.
C23_Witness ==
  /\ last = Call("schedule_change", Ok)
  /\ height >= 3
  /\ PendingChange # None
  /\ PendingChange[1].forced # None
  /\ PendingChange[1].scheduled_at = height
  /\ NextForced = Some(height + 2 * MaxDelay)
  /\ Authorities # <<<<1, 2>>, <<2, 1>>>>

\* ------------------------------------------------------- C24 (SpecModule)
\* What the helper for the kind of log returns on the digest d.
ReadBack(d, log) ==
  IF log[1] = "ScheduledChange" THEN pending_change(d)
  ELSE IF log[1] = "ForcedChange" THEN forced_change(d)
  ELSE IF log[1] = "Challenges" THEN grandpa_challenges(d)
  ELSE IF log[1] = "Pause" THEN pending_pause(d)
  ELSE pending_resume(d)

\* The payload the helper for the kind of log is to return.
Payload(log) ==
  IF log[1] = "ScheduledChange"
  THEN <<log[2], log[3]>>
  ELSE IF log[1] = "ForcedChange"
  THEN <<log[2], <<log[3], log[4]>>>>
  ELSE log[2]

\* C24: every consensus-log entry on_finalize deposits in a block is read
\* back from that block's digest by the helper for its kind (pending_change,
\* forced_change, grandpa_challenges, pending_pause, pending_resume), also
\* when a change announcement, a challenge promotion and a pause/resume
\* announcement fall on the same block.
C24_EveryLogReadBack ==
  phase = "finalized" =>
    \A i \in 1..Len(digest) :
      ReadBack(digest, digest[i]) = Some(Payload(digest[i]))

====
